---- MODULE Spec2Model ----
(***************************************************************************)
(* A model of dvc/project.py: Project.reproduce (staleness-driven,        *)
(* postorder re-execution over the stage graph), Project._used_cache,      *)
(* Project.gc, Project.push / pull / status, Project.graph and             *)
(* Project.pipelines.  The collaborators of Project (Stage.changed,        *)
(* Stage.reproduce, Stage.dump, Stage.checkout, Cache.all, DataCloud, the  *)
(* file system) appear as the steps at which Project calls them; each      *)
(* such call is one action, so the order of the calls and the point of a   *)
(* failure are visible.                                                    *)
(***************************************************************************)
EXTENDS Integers, Sequences, FiniteSets, TLC

\* ------------------------------------------------------------- bounds
NumStages == 3   \* stage files found by Project.stages()
MaxEdges == 3    \* dependencies over all stage files
NumCache == 2    \* distinct cache identifiers
MaxOutputs == 3  \* outputs over all stage files

Stages == 1..NumStages
\* A target path: one of the stage files, or 0, a path that is no stage file.
Targets == 0..NumStages
CacheIds == 1..NumCache

VARIABLES
    deps,     \* deps[s]: what Dependency.stage() gives per dependency of s (0: None)
    outs,     \* outs[s]: the outputs of stage s, [cache, use_cache], in file order
    stale,    \* the stages for which Stage.changed() answers True
    cache,    \* the entries Cache.all() enumerates
    pc,       \* position of the running Project call
    call,     \* the running (or last) call and its arguments
    order,    \* reproduce: the nodes to visit, in visiting order
    idx,      \* reproduce: index in order of the node being visited
    result,   \* reproduce: the list accumulated / returned
    error,    \* the exception the call raised, if any
    log,      \* the collaborator calls made by the call, in order
    stale0,   \* stale as it was when the call started
    last,     \* target of the latest successful recursive reproduce, 0 after a change
    prev,     \* the call repeats the reproduce that came right before it
    clist,    \* gc: the list _used_cache() returned
    todo,     \* gc: the entries of Cache.all() still to be looked at
    cache0,   \* cache as it was when the call started
    sent,     \* push/pull/status: the arguments handed to the remote store
    statusSent, \* the list the latest status() handed over, if any
    built     \* graph/pipelines: the graph built by the call

vars == <<deps, outs, stale, cache, pc, call, order, idx, result, error, log,
          stale0, last, prev, clist, todo, cache0, sent, statusSent, built>>

reproVars == <<order, idx, result, stale0, last, prev>>
gcVars == <<clist, todo, cache0>>
syncVars == <<sent, statusSent, built>>

\* ------------------------------------------------------------- helpers
Range(s) == {s[i] : i \in 1..Len(s)}

NoDup(s) == \A i, j \in 1..Len(s) : i # j => s[i] # s[j]

SeqsUpTo(S, n) == UNION {[1..k -> S] : k \in 0..n}

NoError == [kind |-> "none", stage |-> 0, cause |-> "none"]

NoCall ==
    [op |-> "none", target |-> 0, recursive |-> FALSE, force |-> FALSE,
     jobs |-> 0]

NoSent == [has |-> FALSE, clist |-> <<>>, jobs |-> 0]

NoGraph == [nodes |-> {}, order |-> <<>>, stage |-> <<>>, adj |-> <<>>]

\* ------------------------------------------------------------- exceptions
\* StageNotFoundError(path)
StageNotFoundError(path) ==
    [kind |-> "StageNotFoundError", stage |-> path, cause |-> "none"]

\* ReproductionError(dvc_file_name, ex): names the stage file, wraps the cause.
ReproductionError(dvc_file_name, ex) ==
    [kind |-> "ReproductionError", stage |-> dvc_file_name, cause |-> ex.cause]

\* The exception a collaborator call op on stage n raises.
Raised(op, n) == [kind |-> "Exception", stage |-> n, cause |-> op]

\* ------------------------------------------------------------- graph
\* Project.stages(): the stage files in the order os.walk finds them.
ScanStages == [i \in 1..NumStages |-> i]

\* graph: `if not dep_stage: continue`; Dependency.stage() gave 0 (None) when
\* no stage produces the dependency.
NeverUnresolved(dep_stage) == FALSE

Unresolved(dep_stage) == dep_stage = 0

\* G.add_node(node, stage=stage): nodes in insertion order, each carrying
\* its stage; adding a node again keeps its edges.
AddNode(G, node, stage) ==
    [nodes |-> G.nodes \cup {node},
     order |-> IF node \in G.nodes THEN G.order ELSE Append(G.order, node),
     stage |-> IF node \in G.nodes THEN [G.stage EXCEPT ![node] = stage]
               ELSE G.stage @@ (node :> stage),
     adj   |-> IF node \in G.nodes THEN G.adj ELSE G.adj @@ (node :> <<>>)]

\* G.add_edge(u, v): v joins the successors of u, once.
AddEdge(G, u, v) ==
    [G EXCEPT !.adj[u] = IF v \in Range(@) THEN @ ELSE Append(@, v)]

\* Project.graph(): over the scanned stages and the dependencies of each,
\* a node per stage and, for every dependency with a producing stage, that
\* stage's node and the edge node -> dep_node.  d[s][i] is what
\* Dependency.stage() gives for the i-th dependency of s.
RECURSIVE GraphFrom(_, _, _, _)
GraphFrom(d, k, i, G) ==
    IF k > Len(ScanStages) THEN G
    ELSE LET node == ScanStages[k]
             G1 == IF i = 1 THEN AddNode(G, node, node) ELSE G
         IN IF i > Len(d[node]) THEN GraphFrom(d, k + 1, 1, G1)
            ELSE LET dep_stage == d[node][i] IN
                 IF Unresolved(dep_stage) THEN GraphFrom(d, k, i + 1, G1)
                 ELSE GraphFrom(d, k, i + 1,
                                AddEdge(AddNode(G1, dep_stage, dep_stage),
                                        node, dep_stage))

Graph(d) == GraphFrom(d, 1, 1, NoGraph)

\* nx.get_node_attributes(G, 'stage'): the nodes that carry a stage.
NodeAttributes(G) == DOMAIN G.stage

Children(G, n) == IF n \in DOMAIN G.adj THEN G.adj[n] ELSE <<>>

\* A depth-first walk that remembers only the nodes on the path from the
\* source: it still stops on a cycle, but enters a node again whenever another
\* path leads to it.
RECURSIVE DfsPathFrom(_, _, _, _)
DfsPathFrom(G, n, i, st) ==
    LET ch == Children(G, n) IN
    IF i > Len(ch)
    THEN [seen |-> st.seen, out |-> Append(st.out, n)]
    ELSE IF ch[i] \in st.seen
         THEN DfsPathFrom(G, n, i + 1, st)
         ELSE DfsPathFrom(G, n, i + 1,
                  [seen |-> st.seen,
                   out |-> DfsPathFrom(G, ch[i], 1,
                               [seen |-> st.seen \cup {ch[i]},
                                out |-> st.out]).out])

\* nx.dfs_postorder_nodes(G, source): depth-first from source along the
\* edges, successors in adjacency order, a node emitted once all its
\* unvisited successors have been; a visited node is not entered again.
\* st = [seen, out]; DfsFrom continues the scan of n's successors at i.
RECURSIVE DfsFrom(_, _, _, _)
DfsFrom(G, n, i, st) ==
    LET ch == Children(G, n) IN
    IF i > Len(ch)
    THEN [seen |-> st.seen, out |-> Append(st.out, n)]
    ELSE IF ch[i] \in st.seen
         THEN DfsFrom(G, n, i + 1, st)
         ELSE DfsFrom(G, n, i + 1,
                      DfsFrom(G, ch[i], 1,
                              [seen |-> st.seen \cup {ch[i]}, out |-> st.out]))

\* The preorder of the same traversal.
RECURSIVE PreFrom(_, _, _, _)
PreFrom(G, n, i, st) ==
    LET ch == Children(G, n) IN
    IF i > Len(ch)
    THEN st
    ELSE IF ch[i] \in st.seen
         THEN PreFrom(G, n, i + 1, st)
         ELSE PreFrom(G, n, i + 1,
                      PreFrom(G, ch[i], 1,
                              [seen |-> st.seen \cup {ch[i]},
                               out |-> Append(st.out, ch[i])]))

DfsPreorder(G, source) ==
    PreFrom(G, source, 1, [seen |-> {source}, out |-> <<source>>]).out

\* The same walk started without marking the source as visited.
DfsSourceUnmarked(G, source) ==
    DfsFrom(G, source, 1, [seen |-> {}, out |-> <<>>]).out

DfsPostorder(G, source) ==
    DfsFrom(G, source, 1, [seen |-> {source}, out |-> <<>>]).out

\* ------------------------------------------------------------- reproduce
\* `if node not in stages`
NodeAlwaysFound(stages, node) == TRUE

NodeInStages(stages, node) == node \in stages

\* _reproduce_stage: `if not stages[node].changed(): return []`
SkipNever(isChanged, force) == FALSE

SkipChanged(isChanged, force) == isChanged

ShouldSkip(isChanged, force) == ~isChanged

\* _reproduce_stages: `result += self._reproduce_stage(...)`
AccumulateFront(res, r) == r \o res

Accumulate(res, r) == res \o r

\* The nodes reproduce visits: the postorder from node, or node alone.
VisitPreorder(G, node, recursive) ==
    IF recursive THEN DfsPreorder(G, node) ELSE <<node>>

VisitOrder(G, node, recursive) ==
    IF recursive THEN DfsPostorder(G, node) ELSE <<node>>

\* The exception that leaves reproduce when a collaborator call raises ex
\* at node n: _reproduce_stages wraps it, reproduce itself lets it through.
PropagateUnwrapped(recursive, n, ex) == ex

PropagateWrapped(recursive, n, ex) == ReproductionError(n, ex)

Propagate(recursive, n, ex) ==
    IF recursive THEN ReproductionError(n, ex) ELSE ex

\* Where the loop of _reproduce_stages goes when the call at order[i] raised:
\* the raise leaves the loop.
ContinueOnRaise(i, ord) ==
    IF i < Len(ord) THEN [pc |-> "changed", idx |-> i + 1]
    ELSE [pc |-> "done", idx |-> i]

DumpOnRaise(i, ord) == [pc |-> "dump", idx |-> i]

OnRaise(i, ord) == [pc |-> "done", idx |-> i]

Event(op, n, ret) == [op |-> op, stage |-> n, ret |-> ret]

\* The loop moves on to the next node, or the call returns result.
Advance ==
    IF idx < Len(order)
    THEN /\ pc' = "changed"
         /\ idx' = idx + 1
         /\ last' = last
    ELSE /\ pc' = "done"
         /\ idx' = idx
         /\ last' = IF call.recursive THEN call.target ELSE 0

\* reproduce(target, recursive, force) on a path that is no node.
ReproduceNotFound(target, recursive, force) ==
    /\ pc = "idle"
    /\ ~NodeInStages(NodeAttributes(Graph(deps)), target)
    /\ call' = [op |-> "reproduce", target |-> target,
                recursive |-> recursive, force |-> force,
                jobs |-> 0]
    /\ error' = StageNotFoundError(target)
    /\ pc' = "done"
    /\ order' = <<>>
    /\ idx' = 0
    /\ result' = <<>>
    /\ log' = <<>>
    /\ stale0' = stale
    /\ prev' = FALSE
    /\ last' = 0
    /\ UNCHANGED syncVars
    /\ UNCHANGED <<deps, outs, stale, cache, gcVars>>

\* reproduce(target, recursive, force) up to the first collaborator call.
ReproduceStart(target, recursive, force) ==
    /\ pc = "idle"
    /\ NodeInStages(NodeAttributes(Graph(deps)), target)
    /\ call' = [op |-> "reproduce", target |-> target,
                recursive |-> recursive, force |-> force,
                jobs |-> 0]
    /\ error' = NoError
    /\ pc' = "changed"
    /\ order' = VisitOrder(Graph(deps), target, recursive)
    /\ idx' = 1
    /\ result' = <<>>
    /\ log' = <<>>
    /\ stale0' = stale
    /\ prev' = (recursive /\ last = target)
    /\ last' = 0
    /\ UNCHANGED syncVars
    /\ UNCHANGED <<deps, outs, stale, cache, gcVars>>

\* _reproduce_stage: stages[node].changed() and the early return.
QueryChanged ==
    /\ pc = "changed"
    /\ LET n == order[idx]
           isChanged == n \in stale
       IN /\ log' = Append(log, Event("changed", n, isChanged))
          /\ IF ShouldSkip(isChanged, call.force)
             THEN /\ result' = Accumulate(result, <<>>)
                  /\ Advance
             ELSE /\ pc' = "reproduce"
                  /\ UNCHANGED <<result, idx, last>>
    /\ UNCHANGED syncVars
    /\ UNCHANGED <<deps, outs, stale, cache, call, order, error, stale0, prev,
                   gcVars>>

\* _reproduce_stage: stages[node].reproduce(force=force) returns.
RunStage ==
    /\ pc = "reproduce"
    /\ log' = Append(log, Event("reproduce", order[idx], TRUE))
    /\ pc' = "dump"
    /\ UNCHANGED syncVars
    /\ UNCHANGED <<deps, outs, stale, cache, call, order, idx, result, error,
                   stale0, last, prev, gcVars>>

\* _reproduce_stage: stages[node].reproduce(force=force) raises.
RunStageFails ==
    /\ pc = "reproduce"
    /\ LET n == order[idx]
           nx == OnRaise(idx, order)
       IN /\ log' = Append(log, Event("reproduce", n, FALSE))
          /\ error' = Propagate(call.recursive, n, Raised("reproduce", n))
          /\ pc' = nx.pc
          /\ idx' = nx.idx
    /\ UNCHANGED syncVars
    /\ UNCHANGED <<deps, outs, stale, cache, call, order, result, stale0, last,
                   prev, gcVars>>

\* Stage.dump() has written the stage file: the stage records its new state
\* and Stage.changed() answers False for it from now on.
Persisted(st, n) == st \ {n}

\* _reproduce_stage: stages[node].dump() returns; `return [stages[node]]`.
DumpStage ==
    /\ pc = "dump"
    /\ LET n == order[idx]
       IN /\ log' = Append(log, Event("dump", n, TRUE))
          /\ stale' = Persisted(stale, n)
          /\ result' = Accumulate(result, <<n>>)
          /\ Advance
    /\ UNCHANGED syncVars
    /\ UNCHANGED <<deps, outs, cache, call, order, error, stale0, prev, gcVars>>

\* _reproduce_stage: stages[node].dump() raises.
DumpStageFails ==
    /\ pc = "dump"
    /\ LET n == order[idx]
           nx == OnRaise(idx, order)
       IN /\ log' = Append(log, Event("dump", n, FALSE))
          /\ error' = Propagate(call.recursive, n, Raised("dump", n))
          /\ pc' = nx.pc
          /\ idx' = nx.idx
    /\ UNCHANGED syncVars
    /\ UNCHANGED <<deps, outs, stale, cache, call, order, result, stale0, last,
                   prev, gcVars>>

\* The call is over: its caller has the result or the exception.
Idle ==
    /\ pc' = "idle"
    /\ call' = NoCall
    /\ error' = NoError
    /\ order' = <<>>
    /\ idx' = 0
    /\ result' = <<>>
    /\ log' = <<>>
    /\ prev' = FALSE
    /\ clist' = <<>>
    /\ todo' = <<>>

Return ==
    /\ pc = "done"
    /\ Idle
    /\ stale0' = stale
    /\ cache0' = cache
    /\ sent' = NoSent
    /\ built' = NoGraph
    /\ UNCHANGED <<deps, outs, stale, cache, last, statusSent>>

\* Between two calls a dependency or output of stage s is modified from
\* outside: Stage.changed() answers True for s again.
ExternalChange(s) ==
    /\ pc = "idle"
    /\ s \notin stale
    /\ stale' = stale \cup {s}
    /\ stale0' = stale'
    /\ last' = 0
    /\ UNCHANGED syncVars
    /\ UNCHANGED <<deps, outs, cache, pc, call, error, order, idx, result, log,
                   prev, gcVars>>

\* ------------------------------------------------------------- cache
\* Project.outs(): the outputs of all stages, stage after stage.
RECURSIVE OutsFrom(_, _)
OutsFrom(o, k) ==
    IF k > Len(ScanStages) THEN <<>>
    ELSE o[ScanStages[k]] \o OutsFrom(o, k + 1)

AllOuts(o) == OutsFrom(o, 1)

\* _used_cache: `if not out.use_cache: continue`
SkipsCachedOutput(out) == out.use_cache

SkipsOutput(out) == ~out.use_cache

\* _used_cache: `if out.cache not in clist`
NeverListed(c, cl) == FALSE

AlreadyListed(c, cl) == c \in Range(cl)

\* _used_cache(): over the stages and their outputs in order, the cache of
\* every output that uses the cache, appended unless already in the list.
RECURSIVE UsedCacheFrom(_, _, _, _)
UsedCacheFrom(o, k, i, cl) ==
    IF k > Len(ScanStages) THEN cl
    ELSE LET os == o[ScanStages[k]] IN
         IF i > Len(os) THEN UsedCacheFrom(o, k + 1, 1, cl)
         ELSE IF SkipsOutput(os[i]) THEN UsedCacheFrom(o, k, i + 1, cl)
         ELSE IF AlreadyListed(os[i].cache, cl)
              THEN UsedCacheFrom(o, k, i + 1, cl)
              ELSE UsedCacheFrom(o, k, i + 1, Append(cl, os[i].cache))

UsedCache(o) == UsedCacheFrom(o, 1, 1, <<>>)

\* Cache.all(): the entries of the cache directory, as a list.
RECURSIVE SetToSeq(_)
SetToSeq(S) ==
    IF S = {} THEN <<>>
    ELSE LET m == CHOOSE x \in S : \A y \in S : x <= y
         IN <<m>> \o SetToSeq(S \ {m})

CacheAll(c) == SetToSeq(c)

\* gc: `if cache in clist: continue`
GcKeepsUnused(c, cl) == c \notin Range(cl)

GcKeeps(c, cl) == c \in Range(cl)

\* gc() up to the loop: the used list, then the enumeration of the cache.
GcStart ==
    /\ pc = "idle"
    /\ call' = [NoCall EXCEPT !.op = "gc"]
    /\ clist' = UsedCache(outs)
    /\ todo' = CacheAll(cache)
    /\ cache0' = cache
    /\ log' = <<Event("used_cache", 0, TRUE), Event("all", 0, TRUE)>>
    /\ error' = NoError
    /\ pc' = IF todo' = <<>> THEN "done" ELSE "gc"
    /\ UNCHANGED syncVars
    /\ UNCHANGED <<deps, outs, stale, cache, reproVars>>

\* gc loop: the entry is in the used list and stays.
GcSkip ==
    /\ pc = "gc"
    /\ GcKeeps(Head(todo), clist)
    /\ todo' = Tail(todo)
    /\ pc' = IF todo' = <<>> THEN "done" ELSE "gc"
    /\ UNCHANGED syncVars
    /\ UNCHANGED <<deps, outs, stale, cache, call, error, log, clist, cache0,
                   reproVars>>

\* gc loop: _remove_cache(cache) deletes the file, or the directory tree
\* bottom-up, and the removal is logged.
GcRemove ==
    /\ pc = "gc"
    /\ ~GcKeeps(Head(todo), clist)
    /\ cache' = cache \ {Head(todo)}
    /\ log' = log \o <<Event("remove", Head(todo), TRUE),
                       Event("info", Head(todo), TRUE)>>
    /\ todo' = Tail(todo)
    /\ pc' = IF todo' = <<>> THEN "done" ELSE "gc"
    /\ UNCHANGED syncVars
    /\ UNCHANGED <<deps, outs, stale, call, error, clist, cache0, reproVars>>

\* Where the loop of gc goes when _remove_cache raised on the head of td:
\* nothing catches the exception, it leaves the loop and gc.
GcContinueOnRaise(td) ==
    [pc |-> IF Tail(td) = <<>> THEN "done" ELSE "gc", todo |-> Tail(td)]

GcOnRaise(td) == [pc |-> "done", todo |-> td]

\* gc loop: a chmod, unlink or rmdir of _remove_cache raises; the entry is
\* still in the cache directory and the exception leaves gc.
GcRemoveFails ==
    /\ pc = "gc"
    /\ ~GcKeeps(Head(todo), clist)
    /\ log' = Append(log, Event("remove", Head(todo), FALSE))
    /\ error' = Raised("remove", Head(todo))
    /\ pc' = GcOnRaise(todo).pc
    /\ todo' = GcOnRaise(todo).todo
    /\ UNCHANGED syncVars
    /\ UNCHANGED <<deps, outs, stale, cache, call, clist, cache0, reproVars>>

\* ------------------------------------------------------------- remote sync
\* The values of jobs callers pass: the default of push/pull/status, and 4.
JobsValues == {1, 4}

SyncOps == {"push", "pull", "status"}

\* `self.cloud.push(self._used_cache(), jobs)`: jobs as the caller gave it.
DefaultJobs(jobs) == 1

PassJobs(jobs) == jobs

\* Only pull() goes on to self.checkout() after the remote call.
ChecksOutAlways(op) == TRUE

ChecksOut(op) == op = "pull"

\* push/pull/status(jobs) up to the call of the remote store, which gets the
\* used-cache list and jobs.
SyncStart(op, jobs) ==
    /\ pc = "idle"
    /\ call' = [NoCall EXCEPT !.op = op, !.jobs = jobs]
    /\ sent' = [has |-> TRUE, clist |-> UsedCache(outs), jobs |-> PassJobs(jobs)]
    /\ statusSent' = IF op = "status" THEN sent' ELSE statusSent
    /\ log' = <<Event("used_cache", 0, TRUE)>>
    /\ error' = NoError
    /\ pc' = "transfer"
    /\ UNCHANGED <<deps, outs, stale, cache, built, reproVars, gcVars>>

Push(jobs) == SyncStart("push", jobs)

Pull(jobs) == SyncStart("pull", jobs)

Status(jobs) == SyncStart("status", jobs)

\* cloud.push / cloud.pull / cloud.status returns; pull goes on to checkout().
TransferReturns ==
    /\ pc = "transfer"
    /\ log' = Append(log, Event(call.op, 0, TRUE))
    /\ IF ChecksOut(call.op)
       THEN pc' = "checkout" /\ idx' = 1
       ELSE pc' = "done" /\ idx' = idx
    /\ UNCHANGED <<deps, outs, stale, cache, call, error, order, result, stale0,
                   last, prev, gcVars, syncVars>>

\* cloud.push / cloud.pull / cloud.status raises: the exception leaves the call.
TransferFails ==
    /\ pc = "transfer"
    /\ log' = Append(log, Event(call.op, 0, FALSE))
    /\ error' = Raised(call.op, 0)
    /\ pc' = "done"
    /\ UNCHANGED <<deps, outs, stale, cache, call, reproVars, gcVars, syncVars>>

\* checkout(): stage.checkout() of the next scanned stage returns.
CheckoutStage ==
    /\ pc = "checkout"
    /\ log' = Append(log, Event("checkout", ScanStages[idx], TRUE))
    /\ IF idx < Len(ScanStages)
       THEN pc' = pc /\ idx' = idx + 1
       ELSE pc' = "done" /\ idx' = idx
    /\ UNCHANGED <<deps, outs, stale, cache, call, error, order, result, stale0,
                   last, prev, gcVars, syncVars>>

\* checkout(): stage.checkout() raises: the exception leaves checkout and pull.
CheckoutFails ==
    /\ pc = "checkout"
    /\ log' = Append(log, Event("checkout", ScanStages[idx], FALSE))
    /\ error' = Raised("checkout", ScanStages[idx])
    /\ pc' = "done"
    /\ UNCHANGED <<deps, outs, stale, cache, call, reproVars, gcVars, syncVars>>

\* run(outs=[...] or outs_no_cache=[...], fname): the stage file fname is
\* written anew with the outputs os; the stage set is no longer the one the
\* latest status() saw.
Run(fname, os) ==
    /\ pc = "idle"
    /\ outs[fname] # os
    /\ outs' = [outs EXCEPT ![fname] = os]
    /\ statusSent' = NoSent
    /\ UNCHANGED <<deps, stale, cache, pc, call, error, log, sent, built,
                   reproVars, gcVars>>

\* ------------------------------------------------------------- pipelines
\* The nodes joined to n by an edge, whatever its direction.
Neighbours(G, n) ==
    Range(G.adj[n]) \cup {m \in G.nodes : n \in Range(G.adj[m])}

RECURSIVE ComponentOf(_, _)
ComponentOf(G, S) ==
    LET T == S \cup UNION {Neighbours(G, x) : x \in S}
    IN IF T = S THEN S ELSE ComponentOf(G, T)

\* nx.weakly_connected_component_subgraphs(G): over the nodes in order, the
\* component of every node not yet in an earlier one.
RECURSIVE ComponentsFrom(_, _, _)
ComponentsFrom(G, k, seen) ==
    IF k > Len(G.order) THEN <<>>
    ELSE IF G.order[k] \in seen THEN ComponentsFrom(G, k + 1, seen)
    ELSE LET c == ComponentOf(G, {G.order[k]})
         IN <<c>> \o ComponentsFrom(G, k + 1, seen \cup c)

WeaklyConnectedComponents(G) == ComponentsFrom(G, 1, {})

\* `Pipeline(self, G)`: project.py neither defines nor imports a name
\* Pipeline, so evaluating it raises NameError.
PipelineDefined == FALSE

NameError(name) == [kind |-> "NameError", stage |-> 0, cause |-> name]

\* graph()
BuildGraph ==
    /\ pc = "idle"
    /\ call' = [NoCall EXCEPT !.op = "graph"]
    /\ built' = Graph(deps)
    /\ error' = NoError
    /\ pc' = "done"
    /\ UNCHANGED <<deps, outs, stale, cache, log, sent, statusSent, reproVars,
                   gcVars>>

\* pipelines(): the graph, its components, and a Pipeline for each.
Pipelines ==
    /\ pc = "idle"
    /\ call' = [NoCall EXCEPT !.op = "pipelines"]
    /\ built' = Graph(deps)
    /\ LET comps == WeaklyConnectedComponents(built')
       IN IF comps = <<>> \/ PipelineDefined
          THEN result' = comps /\ error' = NoError
          ELSE result' = <<>> /\ error' = NameError("Pipeline")
    /\ pc' = "done"
    /\ UNCHANGED <<deps, outs, stale, cache, log, sent, statusSent, order, idx,
                   stale0, last, prev, gcVars>>

\* ------------------------------------------------------------- initial states
EdgePairs == {e \in Stages \X Stages : e[1] # e[2]}

\* The producers of s among the edges es, in the order they were declared.
DepsOf(es, s) ==
    LET sel == SelectSeq(es, LAMBDA e : e[1] = s)
    IN [i \in 1..Len(sel) |-> sel[i][2]]

\* The stage files of a project: every stage lists up to MaxEdges resolved
\* dependencies in all, none of them twice and none on its own output.
DepsChoices ==
    {[s \in Stages |-> DepsOf(es, s)] :
        es \in {q \in SeqsUpTo(EdgePairs, MaxEdges) : NoDup(q)}}

NoOuts == [s \in Stages |-> <<>>]

InitCall ==
    /\ pc = "idle"
    /\ call = NoCall
    /\ order = <<>>
    /\ idx = 0
    /\ result = <<>>
    /\ error = NoError
    /\ log = <<>>
    /\ last = 0
    /\ prev = FALSE
    /\ clist = <<>>
    /\ todo = <<>>
    /\ sent = NoSent
    /\ statusSent = NoSent
    /\ built = NoGraph

Init ==
    /\ deps \in DepsChoices
    /\ outs = NoOuts
    /\ stale \in SUBSET Stages
    /\ stale0 = stale
    /\ cache = {}
    /\ cache0 = cache
    /\ InitCall

Next ==
    \/ \E t \in Targets, r \in BOOLEAN, f \in BOOLEAN : ReproduceNotFound(t, r, f)
    \/ \E t \in Targets, r \in BOOLEAN, f \in BOOLEAN : ReproduceStart(t, r, f)
    \/ QueryChanged
    \/ RunStage
    \/ RunStageFails
    \/ DumpStage
    \/ DumpStageFails
    \/ Return
    \/ \E s \in Stages : ExternalChange(s)

Spec == Init /\ [][Next]_vars

\* The outputs of stage s among the declarations q, in declaration order.
OutsOf(q, s) ==
    LET sel == SelectSeq(q, LAMBDA t : t[1] = s)
    IN [i \in 1..Len(sel) |-> [cache |-> sel[i][2], use_cache |-> sel[i][3]]]

\* The stage files of a project: up to MaxOutputs outputs in all, each with
\* a cache identifier and its use-cache flag.
OutsChoices ==
    {[s \in Stages |-> OutsOf(q, s)] :
        q \in SeqsUpTo(Stages \X CacheIds \X BOOLEAN, MaxOutputs)}

NoDeps == [s \in Stages |-> <<>>]

InitCache ==
    /\ deps = NoDeps
    /\ outs \in OutsChoices
    /\ stale = {}
    /\ stale0 = stale
    /\ cache \in SUBSET CacheIds
    /\ cache0 = cache
    /\ InitCall

NextCache ==
    \/ GcStart
    \/ GcSkip
    \/ GcRemove
    \/ GcRemoveFails
    \/ Return

SpecCache == InitCache /\ [][NextCache]_vars

\* An output of a stage file.
Outputs == [cache : CacheIds, use_cache : BOOLEAN]

\* A project whose stage files declare no output yet.
InitSync ==
    /\ deps = NoDeps
    /\ outs = NoOuts
    /\ stale = {}
    /\ stale0 = stale
    /\ cache = {}
    /\ cache0 = cache
    /\ InitCall

NextSync ==
    \/ \E j \in JobsValues : Push(j)
    \/ \E j \in JobsValues : Pull(j)
    \/ \E j \in JobsValues : Status(j)
    \/ TransferReturns
    \/ TransferFails
    \/ CheckoutStage
    \/ CheckoutFails
    \/ \E f \in Stages, os \in SeqsUpTo(Outputs, 1) : Run(f, os)
    \/ Return

SpecSync == InitSync /\ [][NextSync]_vars

EdgePairsOrNone == {e \in Stages \X (0..NumStages) : e[1] # e[2]}

\* Stage files whose dependencies may have no producing stage (0) and may
\* name the same producer more than once.
DepsChoicesOrNone ==
    {[s \in Stages |-> DepsOf(es, s)] : es \in SeqsUpTo(EdgePairsOrNone, MaxEdges)}

InitGraph ==
    /\ deps \in DepsChoicesOrNone
    /\ outs = NoOuts
    /\ stale = {}
    /\ stale0 = stale
    /\ cache = {}
    /\ cache0 = cache
    /\ InitCall

NextGraph ==
    \/ BuildGraph
    \/ Pipelines
    \/ Return

SpecGraph == InitGraph /\ [][NextGraph]_vars

\* ------------------------------------------------------------- observations
EventsOf(op) == SelectSeq(log, LAMBDA e : e.op = op)

StagesOf(es) == [i \in 1..Len(es) |-> es[i].stage]

\* The stages whose staleness was asked, in the order of asking.
Queried == StagesOf(EventsOf("changed"))

\* The stages whose command was run to the end, in the order of running.
Executed == StagesOf(SelectSeq(log, LAMBDA e : e.op = "reproduce" /\ e.ret))

\* The stages whose new state was written.
PersistedNow == {e.stage : e \in {x \in Range(log) : x.op = "dump" /\ x.ret}}

\* The stages the oracle reported changed, in the order of asking.
ReportedChanged == StagesOf(SelectSeq(log, LAMBDA e : e.op = "changed" /\ e.ret))

Failures == {i \in 1..Len(log) : log[i].op # "changed" /\ ~log[i].ret}

Producers(n) == Range(deps[n])

RECURSIVE Closure(_)
Closure(S) ==
    LET T == S \cup UNION {Producers(x) : x \in S}
    IN IF T = S THEN S ELSE Closure(T)

\* Every stage n depends on, directly or through other stages.
TransitiveProducers(n) == Closure(Producers(n))

Acyclic == \A n \in Stages : n \notin TransitiveProducers(n)

InReproduce == call.op = "reproduce"

Returned == pc = "done" /\ error.kind = "none"

\* ------------------------------------------------------------- claims
\* C1: in a recursive reproduce over an acyclic stage graph, when a stage is
\* visited (its staleness asked) every transitive producer of it has been
\* visited before and no call on a producer comes after; the target is the
\* last stage visited by a call that returns.
C1_ProducersFirst ==
    (InReproduce /\ call.recursive /\ Acyclic) =>
        /\ \A k \in 1..Len(log) :
              log[k].op = "changed" =>
                 \A p \in TransitiveProducers(log[k].stage) :
                    /\ \E j \in 1..(k - 1) :
                          log[j].op = "changed" /\ log[j].stage = p
                    /\ \A j \in (k + 1)..Len(log) : log[j].stage # p
        /\ Returned =>
              /\ Queried # <<>>
              /\ Queried[Len(Queried)] = call.target
              /\ TransitiveProducers(call.target) \subseteq Range(Queried)

C1_Witness ==
    /\ InReproduce /\ call.recursive /\ Acyclic /\ Returned
    /\ TransitiveProducers(call.target) \ Producers(call.target) # {}
    /\ Len(Executed) = Len(Queried)

\* C2: the list a successful recursive reproduce returns is the list of the
\* stages it re-executed, in execution order: the stages of the postorder
\* that the oracle reported changed when they were visited.
C2_ResultIsExecuted ==
    (InReproduce /\ call.recursive /\ Returned) =>
        /\ result = Executed
        /\ result = ReportedChanged
        /\ Queried = DfsPostorder(Graph(deps), call.target)
        /\ result = SelectSeq(Queried, LAMBDA n : n \in stale0)

C2_Witness ==
    /\ InReproduce /\ call.recursive /\ Returned
    /\ Len(result) = 2
    /\ result[1] \in Producers(result[2])
    /\ Len(Queried) = 3

\* C3: when the oracle reports unchanged for every stage visited and force
\* is false, reproduce (recursive or not) runs and persists nothing and
\* returns the empty list.
C3_StableNoop ==
    (InReproduce /\ ~call.force
        /\ \A e \in Range(log) : e.op = "changed" => ~e.ret) =>
        /\ \A e \in Range(log) : e.op = "changed"
        /\ result = <<>>
        /\ stale = stale0

C3_Witness ==
    /\ InReproduce /\ ~call.force /\ Returned
    /\ Len(log) >= 2
    /\ \A e \in Range(log) : e.op = "changed" /\ ~e.ret

\* C4: with force=true every visited stage is re-executed, persisted and
\* returned, also when the oracle reports it unchanged.
C4_ForceReexecutes ==
    (InReproduce /\ call.force /\ Returned) =>
        /\ result = Queried
        /\ Executed = Queried
        /\ PersistedNow = Range(Queried)

\* C5: in a recursive reproduce a raising execute or dump ends the call at
\* once: ReproductionError names the failing stage and wraps the cause, and
\* the failing call is the last call made; the stages asked are the
\* postorder up to the failing stage.
C5_AbortOnFailure ==
    (InReproduce /\ call.recursive /\ Failures # {}) =>
        /\ pc = "done"
        /\ Failures = {Len(log)}
        /\ error = ReproductionError(log[Len(log)].stage,
                                     Raised(log[Len(log)].op, log[Len(log)].stage))
        /\ Queried = SubSeq(DfsPostorder(Graph(deps), call.target), 1, Len(Queried))
        /\ Queried[Len(Queried)] = error.stage

C5_Witness ==
    /\ InReproduce /\ call.recursive /\ pc = "done"
    /\ error.kind = "ReproductionError"
    /\ error.cause = "dump"
    /\ \E i \in (idx + 1)..Len(order) : order[i] \in stale

\* C6: when a recursive reproduce fails, the stages persisted by the call
\* are exactly the stale stages before the failing stage in the postorder,
\* and they stay in their new state (the oracle reports them unchanged).
C6_NoRollback ==
    (InReproduce /\ pc = "done" /\ error.kind = "ReproductionError") =>
        LET po == DfsPostorder(Graph(deps), call.target)
            k == CHOOSE i \in 1..Len(po) : po[i] = error.stage
            before == {po[j] : j \in 1..(k - 1)} \cap stale0
        IN /\ PersistedNow = before
           /\ stale = stale0 \ before

C6_Witness ==
    /\ InReproduce /\ pc = "done" /\ error.kind = "ReproductionError"
    /\ error.cause = "reproduce"
    /\ Cardinality(PersistedNow) = 2

\* C7: a recursive reproduce of a target right after a successful recursive
\* reproduce of the same target, nothing having changed in between, runs no
\* stage and returns the empty list.
C7_SecondRunEmpty ==
    (InReproduce /\ prev) =>
        /\ \A e \in Range(log) : e.op = "changed" /\ ~e.ret
        /\ result = <<>>
        /\ pc = "done" => error.kind = "none"

C7_Witness ==
    /\ InReproduce /\ prev /\ Returned
    /\ Len(Queried) = 3

\* C8: reproduce of a path that is no node of the graph raises
\* StageNotFoundError before any stage is asked, run or persisted, whether
\* recursive or not.
C8_NotFound ==
    (InReproduce /\ call.target \notin Stages) =>
        /\ pc = "done"
        /\ error = StageNotFoundError(call.target)
        /\ log = <<>>
        /\ result = <<>>
        /\ stale = stale0

C8_Witness ==
    /\ InReproduce /\ call.target \notin Stages /\ pc = "done"
    /\ call.recursive
    /\ stale # {}

\* The cache identifiers of the outputs that use the cache.
UsedIds ==
    {outs[s][i].cache :
        <<s, i>> \in {x \in Stages \X (1..MaxOutputs) :
                         x[2] <= Len(outs[x[1]]) /\ outs[x[1]][x[2]].use_cache}}

\* Where identifier c first appears among the outputs that use the cache.
FirstUse(c) ==
    LET a == AllOuts(outs)
    IN CHOOSE i \in 1..Len(a) :
          /\ a[i].use_cache /\ a[i].cache = c
          /\ \A j \in 1..(i - 1) : ~(a[j].use_cache /\ a[j].cache = c)

\* C9: the used-cache list has no identifier twice, holds exactly the
\* identifiers of the outputs whose use-cache flag is set, as many as there
\* are distinct ones, in the order of their first appearance over the stages
\* and their outputs.
C9_UsedCacheSet ==
    (call.op = "gc") =>
        /\ NoDup(clist)
        /\ Range(clist) = UsedIds
        /\ Len(clist) = Cardinality(UsedIds)
        /\ \A i, j \in 1..Len(clist) :
              i < j => FirstUse(clist[i]) < FirstUse(clist[j])

C9_Witness ==
    /\ call.op = "gc"
    /\ Len(clist) = 2
    /\ Len(SelectSeq(AllOuts(outs), LAMBDA x : x.use_cache)) = 3
    /\ clist[1] > clist[2]

\* C10: when gc returns, the cache holds the entries it held before that
\* are in the used-cache set of the stage scan, and no other.
C10_GcKeepsUsed ==
    (call.op = "gc" /\ Returned) =>
        /\ cache = cache0 \cap UsedIds
        /\ \A c \in cache : c \in UsedIds
        /\ \A c \in cache0 \ UsedIds : c \notin cache

C10_Witness ==
    /\ call.op = "gc" /\ Returned
    /\ cache # {}
    /\ cache0 \ cache # {}

\* The cache entries the running gc has deleted.
Removed == {e.stage : e \in {x \in Range(log) : x.op = "remove" /\ x.ret}}

\* C11: in every state of a gc call, also one that ends in an exception, no
\* entry that a use-cache output of a scanned stage refers to has been
\* deleted, and every deletion comes after the used-cache list was computed.
C11_GcNeverDeletesUsed ==
    (call.op = "gc") =>
        /\ (cache0 \ cache) \cap UsedIds = {}
        /\ Removed \cap UsedIds = {}
        /\ cache0 \ cache = Removed
        /\ log[1] = Event("used_cache", 0, TRUE)
        /\ \A k \in 2..Len(log) : log[k].op # "used_cache"

C11_Witness ==
    /\ call.op = "gc" /\ pc = "gc"
    /\ Removed # {}
    /\ \E c \in Range(todo) : c \in UsedIds

\* C12: when the deletion of an unreferenced entry raises, gc ends with that
\* exception: the failing deletion is its last step, no removal is logged
\* for the entry, and the entries after it in the enumeration stay.
C12_GcFailureIsFatal ==
    (call.op = "gc"
        /\ \E k \in 1..Len(log) : log[k].op = "remove" /\ ~log[k].ret) =>
        LET f == log[Len(log)] IN
        /\ pc = "done"
        /\ f.op = "remove" /\ ~f.ret
        /\ \A k \in 1..(Len(log) - 1) : log[k].ret
        /\ error = Raised("remove", f.stage)
        /\ \A e \in Range(log) : ~(e.op = "info" /\ e.stage = f.stage)
        /\ todo # <<>> /\ Head(todo) = f.stage
        /\ Range(todo) \subseteq cache

C12_Witness ==
    /\ call.op = "gc" /\ pc = "done" /\ error.kind = "Exception"
    /\ Len(todo) >= 2
    /\ \E i \in 2..Len(todo) : todo[i] \notin UsedIds

InSync == call.op \in SyncOps

Checkouts == StagesOf(EventsOf("checkout"))

\* C13: a stage is checked out only inside pull and only after the remote
\* transfer returned; a pull that returns has checked out every scanned
\* stage; a failed transfer is followed by no checkout; push and status
\* check out nothing.
C13_CheckoutOnlyAfterPull ==
    InSync =>
        /\ \A k \in 1..Len(log) :
              log[k].op = "checkout" =>
                 /\ call.op = "pull"
                 /\ \E j \in 1..(k - 1) : log[j] = Event("pull", 0, TRUE)
        /\ (call.op = "pull" /\ Returned) => Checkouts = ScanStages
        /\ (\E k \in 1..Len(log) : log[k].op \in SyncOps /\ ~log[k].ret) =>
              /\ Checkouts = <<>>
              /\ pc = "done" /\ error = Raised(call.op, 0)

C13_Witness ==
    /\ call.op = "pull" /\ Returned
    /\ Len(Checkouts) = NumStages
    /\ sent.clist # <<>>

\* cl is the used-cache list of the stage files as they are: no identifier
\* twice, the identifiers of the use-cache outputs, in order of first use.
IsUsedCacheList(cl) ==
    /\ NoDup(cl)
    /\ Range(cl) = UsedIds
    /\ \A i, j \in 1..Len(cl) : i < j => FirstUse(cl[i]) < FirstUse(cl[j])

\* C14: push, pull and status hand the remote store the used-cache list of
\* the stage scan and the caller's jobs; a push after a status, the stage
\* files unchanged in between, hands over the same list.
C14_RemoteGetsUsedCache ==
    InSync =>
        /\ sent.has
        /\ IsUsedCacheList(sent.clist)
        /\ sent.jobs = call.jobs
        /\ (call.op = "push" /\ statusSent.has) => sent.clist = statusSent.clist

C14_Witness ==
    /\ call.op = "push" /\ statusSent.has
    /\ call.jobs = 4
    /\ Len(sent.clist) = 2
    /\ sent.clist[1] > sent.clist[2]

Edges(G) == {e \in G.nodes \X G.nodes : e[2] \in Range(G.adj[e[1]])}

\* a and b are joined by a path of edges taken in either direction.
Connected(a, b) ==
    \E path \in SeqsUpTo(Stages, NumStages) :
        /\ path # <<>>
        /\ path[1] = a /\ path[Len(path)] = b
        /\ \A i \in 1..(Len(path) - 1) :
              \/ path[i + 1] \in Producers(path[i])
              \/ path[i] \in Producers(path[i + 1])

\* C15: pipelines() returns pipelines that partition the stage set: every
\* stage is in exactly one, two stages of one pipeline are connected
\* ignoring edge direction, two stages of different pipelines are not.
C15_PipelinesPartition ==
    (call.op = "pipelines" /\ pc = "done") =>
        /\ error.kind = "none"
        /\ \A s \in Stages :
              Cardinality({i \in 1..Len(result) : s \in result[i]}) = 1
        /\ \A i, j \in 1..Len(result) :
              \A a \in result[i], b \in result[j] :
                 Connected(a, b) <=> i = j

\* C16: graph() builds one node per scanned stage, with or without
\* dependencies, each carrying its stage, and exactly the edges (dependent,
\* producer) for the dependencies that have a producing stage; a dependency
\* without one adds neither edge nor node.
C16_GraphNodesAndEdges ==
    (call.op = "graph" /\ pc = "done") =>
        /\ built.nodes = Stages
        /\ Cardinality(built.nodes) = NumStages
        /\ DOMAIN built.adj = built.nodes
        /\ Edges(built) =
              {e \in Stages \X Stages : e[2] \in Range(deps[e[1]])}
        /\ \A u \in DOMAIN built.adj : Range(built.adj[u]) \subseteq built.nodes
        /\ DOMAIN built.stage = built.nodes
        /\ \A n \in built.nodes : built.stage[n] = n

C16_Witness ==
    /\ call.op = "graph" /\ pc = "done"
    /\ \E s \in Stages : 0 \in Range(deps[s]) /\ Range(deps[s]) \ {0} # {}
    /\ \E s \in Stages : deps[s] = <<>>
    /\ Edges(built) # {}

\* The stages a recursive reproduce of the target can reach along
\* dependent -> producer edges, the target included.
Reachable == {call.target} \cup TransitiveProducers(call.target)

RecursiveCall ==
    InReproduce /\ call.recursive /\ error.kind # "StageNotFoundError"

CallsOf(op, s) == {i \in 1..Len(log) : log[i].op = op /\ log[i].stage = s}

\* C17: in one recursive reproduce every stage reachable from the target is
\* queried exactly once, also when several consumers share it, so it is
\* executed and persisted at most once and is at most once in the result;
\* a stage that is not reachable is never queried, executed or persisted.
C17_EachReachableOnce ==
    RecursiveCall =>
        /\ \A s \in Stages :
              /\ Cardinality(CallsOf("changed", s)) <= 1
              /\ Cardinality(CallsOf("reproduce", s)) <= 1
              /\ Cardinality(CallsOf("dump", s)) <= 1
              /\ Cardinality({i \in 1..Len(result) : result[i] = s}) <= 1
        /\ \A i \in 1..Len(log) : log[i].stage \in Reachable
        /\ Range(result) \subseteq Reachable
        /\ Returned =>
              \A s \in Reachable : Cardinality(CallsOf("changed", s)) = 1

C17_Witness ==
    /\ RecursiveCall /\ Returned
    /\ \E p \in Reachable \ {call.target} :
          /\ Cardinality({c \in Reachable : p \in Producers(c)}) >= 2
          /\ p \in Range(result)
          /\ p \in PersistedNow

\* C18: a cyclic set of stage definitions is accepted, and a recursive
\* reproduce on any graph, cyclic ones included, ends after at most one
\* query, one execution and one persist per reachable stage; when every call
\* returns it has visited each reachable stage once.
C18_CyclesTerminate ==
    RecursiveCall =>
        /\ error.kind \in {"none", "ReproductionError"}
        /\ Len(order) = Cardinality(Reachable)
        /\ Range(order) = Reachable
        /\ Len(Queried) <= Cardinality(Reachable)
        /\ Len(log) <= Len(EventsOf("changed")) + Len(EventsOf("reproduce"))
                       + Len(EventsOf("dump"))
        /\ Len(EventsOf("reproduce")) <= Len(Queried)
        /\ Len(EventsOf("dump")) <= Len(EventsOf("reproduce"))
        /\ pc # "done" => idx \in 1..Len(order) /\ Len(Queried) \in {idx - 1, idx}
        /\ Returned => /\ Len(Queried) = Cardinality(Reachable)
                       /\ Range(Queried) = Reachable

C18_Witness ==
    /\ RecursiveCall /\ Returned
    /\ call.target \in TransitiveProducers(call.target)
    /\ Cardinality(Reachable) >= 2
    /\ Len(result) >= 2

\* C19: within reproduce the calls for one stage are query, execute,
\* persist in this order: an execution directly follows the query of the
\* same stage that reported it changed, a persist directly follows the
\* successful execution of the same stage; a stage reported unchanged, or
\* whose execution raised, is not persisted by the call.
C19_QueryExecutePersist ==
    InReproduce =>
        /\ \A k \in 1..Len(log) :
              /\ log[k].op = "reproduce" =>
                    /\ k > 1
                    /\ log[k - 1] = Event("changed", log[k].stage, TRUE)
              /\ log[k].op = "dump" =>
                    /\ k > 2
                    /\ log[k - 1] = Event("reproduce", log[k].stage, TRUE)
                    /\ log[k - 2] = Event("changed", log[k].stage, TRUE)
        /\ \A s \in Stages :
              (\/ Event("changed", s, FALSE) \in Range(log)
               \/ Event("reproduce", s, FALSE) \in Range(log))
                 => CallsOf("dump", s) = {}

C19_Witness ==
    /\ InReproduce /\ pc = "done"
    /\ \E a, b, c \in Stages :
          /\ Event("changed", a, FALSE) \in Range(log)
          /\ Event("dump", b, TRUE) \in Range(log)
          /\ Event("reproduce", c, FALSE) \in Range(log)

\* C20: a failure of an execution or a persist reaches the caller as a
\* ReproductionError in recursive mode only; in non-recursive mode the error
\* the target's call raised leaves reproduce as it is, neither wrapped nor
\* swallowed.
C20_WrappedOnlyWhenRecursive ==
    InReproduce =>
        /\ error.kind = "ReproductionError" => call.recursive /\ Failures # {}
        /\ Failures # {} =>
              LET f == log[Len(log)] IN
              /\ pc = "done"
              /\ result = <<>> \/ call.recursive
              /\ call.recursive => error.kind = "ReproductionError"
              /\ ~call.recursive =>
                    /\ f.stage = call.target
                    /\ error = Raised(f.op, call.target)
                    /\ error.kind = "Exception"

C20_Witness ==
    /\ InReproduce /\ ~call.recursive /\ pc = "done"
    /\ Failures # {}
    /\ error = Raised("dump", call.target)

====
